---- MODULE Spec2Model ----
(***************************************************************************)
(* SimpleVector<Type> of simple_vector.h, over a scalar element type.      *)
(*                                                                         *)
(* A container is a record [items, size, capacity]: items is the block     *)
(* owned by the ArrayPtr member items_ (its length is the number of slots  *)
(* really allocated; the empty sequence is the null pointer), size and     *)
(* capacity are the members size_ and capacity_.  Slots are numbered from  *)
(* 0 as in the source; slot i of a block is items[i + 1].                  *)
(*                                                                         *)
(* An access to a slot outside the owned block is undefined behaviour: a   *)
(* write there does not reach the owned block, a read there yields any     *)
(* cell (the action chooses the foreign memory it sees), and the variable  *)
(* oob records that the last operation made such an access.  The variable  *)
(* pre is the container as it was before the last operation, last names    *)
(* that operation with its arguments and what it returned.  The variable   *)
(* u is a second container, the right-hand side of the operations that     *)
(* take one (assignment, swap, comparison, move construction).             *)
(***************************************************************************)
EXTENDS Integers, Sequences, FiniteSets, TLC

VARIABLES v, u, pre, last, oob, hist

vars == <<v, u, pre, last, oob, hist>>

\* ---- bounds ----
MaxVal == 1
MaxCap == 4
MaxInit == 2

\* ---- element type ----
Values == 0..MaxVal
\* Type() of a scalar type
DefaultValue == 0
\* content of a slot that `new Type[n]` left uninitialized
Indeterminate == 0 - 1
Cell == Values \cup {Indeterminate}

Max(a, b) == IF a >= b THEN a ELSE b
Min(a, b) == IF a <= b THEN a ELSE b

\* ---- ArrayPtr ----
\* ArrayPtr<Type>(n): n default-initialized slots, no block at all for n = 0
ArrayPtr(n) == [i \in 1..n |-> Indeterminate]

\* *(items_.Get() + i) read; foreign is the memory seen outside the block
\* (it covers every slot an operation used within its contract can read)
Read(items, i, foreign) ==
    IF i < Len(items) THEN items[i + 1]
    ELSE IF i \in DOMAIN foreign THEN foreign[i]
    ELSE Indeterminate

\* *(items_.Get() + i) = x
Write(items, i, x) ==
    IF i < Len(items) THEN [items EXCEPT ![i + 1] = x] ELSE items

\* the foreign memories an operation on c can see: one cell for every slot
\* index below size that lies outside the owned block
Foreign(c) == [Len(c.items)..(c.size - 1) -> Cell]

\* ---- <algorithm> ----
\* std::fill / std::generate over slots [first, last) of a block
RECURSIVE StdFill(_, _, _, _)
StdFill(items, first, lst, x) ==
    IF first >= lst THEN items
    ELSE StdFill(Write(items, first, x), first + 1, lst, x)

\* std::copy of slots [first, last) of src into dst from slot d on, front to back
RECURSIVE StdCopy(_, _, _, _, _, _)
StdCopy(src, first, lst, dst, d, foreign) ==
    IF first >= lst THEN dst
    ELSE StdCopy(src, first + 1, lst,
                 Write(dst, d, Read(src, first, foreign)), d + 1, foreign)

\* std::copy within one block, front to back: a slot written is seen by later reads
RECURSIVE StdCopyWithin(_, _, _, _, _)
StdCopyWithin(items, first, lst, d, foreign) ==
    IF first >= lst THEN items
    ELSE StdCopyWithin(Write(items, d, Read(items, first, foreign)),
                       first + 1, lst, d + 1, foreign)

\* std::copy_backward within one block, back to front, ending before slot dlast
RECURSIVE StdCopyBackward(_, _, _, _, _)
StdCopyBackward(items, first, lst, dlast, foreign) ==
    IF first >= lst THEN items
    ELSE StdCopyBackward(Write(items, dlast - 1, Read(items, lst - 1, foreign)),
                         first, lst - 1, dlast - 1, foreign)

\* ---- SimpleVector ----
Vec(items, size, capacity) == [items |-> items, size |-> size, capacity |-> capacity]

\* SimpleVector()
DefaultCtor == Vec(<<>>, 0, 0)

\* explicit SimpleVector(size_t size)
SizedCtor(n) == Vec(StdFill(ArrayPtr(n), 0, n, DefaultValue), n, n)

\* SimpleVector(size_t size, const Type& value)
SizedValueCtor(n, x) == Vec(StdFill(ArrayPtr(n), 0, n, x), n, n)

\* SimpleVector(std::initializer_list<Type> init)
InitListCtor(init) ==
    Vec(StdCopy(init, 0, Len(init), ArrayPtr(Len(init)), 0, <<>>), Len(init), Len(init))

\* SimpleVector(ReserveProxyObj obj): only capacity_ is set
ReserveCtor(c) == Vec(<<>>, 0, c)

\* SimpleVector(const SimpleVector& other)
CopyCtor(other, foreign) ==
    Vec(StdCopy(other.items, 0, other.size, ArrayPtr(other.size), 0, foreign),
        other.size, other.capacity)

\* faulty variant: size_ and capacity_ of other are read, not exchanged with 0
MoveCtorKeepsSource(other) ==
    [dst |-> Vec(other.items, other.size, other.capacity),
     src |-> Vec(<<>>, other.size, other.capacity)]

\* SimpleVector(SimpleVector&& other): the new object and what is left of other
MoveCtor(other) == [dst |-> Vec(other.items, other.size, other.capacity),
                    src |-> Vec(<<>>, 0, 0)]

\* operator[](index)
Index(c, index, foreign) == Read(c.items, index, foreign)

\* faulty variant: the bound check lets index = size through
AtAdmitsEnd(c, index, foreign) ==
    IF index > c.size
      THEN [threw |-> TRUE, ret |-> Indeterminate]
      ELSE [threw |-> FALSE, ret |-> Read(c.items, index, foreign)]

\* At(index)
At(c, index, foreign) ==
    IF index >= c.size
      THEN [threw |-> TRUE, ret |-> Indeterminate]
      ELSE [threw |-> FALSE, ret |-> Read(c.items, index, foreign)]

\* faulty variant: the relocation stops one element short
ReserveDropsLast(c, new_capacity, foreign) ==
    IF new_capacity > c.capacity
      THEN Vec(StdCopy(c.items, 0, c.size - 1, ArrayPtr(new_capacity), 0, foreign),
               c.size, new_capacity)
      ELSE c

\* Reserve(new_capacity)
Reserve(c, new_capacity, foreign) ==
    IF new_capacity > c.capacity
      THEN Vec(StdCopy(c.items, 0, c.size, ArrayPtr(new_capacity), 0, foreign),
               c.size, new_capacity)
      ELSE c

\* faulty variant: growth allocates the new size only, without doubling
ResizeNoDoubling(c, new_size, foreign) ==
    IF new_size <= c.size
      THEN Vec(c.items, new_size, c.capacity)
    ELSE IF new_size <= c.capacity
      THEN Vec(StdFill(c.items, c.size, new_size, DefaultValue), new_size, c.capacity)
    ELSE LET new_capacity == new_size
             tmp == StdCopy(c.items, 0, c.size, ArrayPtr(new_capacity), 0, foreign)
         IN  Vec(StdFill(tmp, c.size, new_capacity, DefaultValue), new_size, new_capacity)

\* Resize(new_size)
Resize(c, new_size, foreign) ==
    IF new_size <= c.size
      THEN Vec(c.items, new_size, c.capacity)
    ELSE IF new_size <= c.capacity
      THEN Vec(StdFill(c.items, c.size, new_size, DefaultValue), new_size, c.capacity)
    ELSE LET new_capacity == Max(new_size, c.capacity * 2)
             tmp == StdCopy(c.items, 0, c.size, ArrayPtr(new_capacity), 0, foreign)
         IN  Vec(StdFill(tmp, c.size, new_capacity, DefaultValue), new_size, new_capacity)

\* faulty variant: the block is released with the elements
ClearReleases(c, foreign) == Vec(<<>>, 0, 0)

\* Clear()
Clear(c, foreign) == Resize(c, 0, foreign)

\* faulty variant: the first growth of an empty container is forgotten
GrownCapacityNoFirstSlot(capacity) == capacity * 2

\* the capacity PushBack and Insert grow a full container to
GrownCapacity(capacity) == IF capacity = 0 THEN 1 ELSE capacity * 2

\* faulty variant: a full container grows by one slot instead of doubling
PushBackGrowsByOne(c, item, foreign) ==
    IF c.size < c.capacity
      THEN Vec(Write(c.items, c.size, item), c.size + 1, c.capacity)
      ELSE LET r == Reserve(c, c.capacity + 1, foreign)
           IN  Vec(Write(r.items, r.size, item), r.size + 1, r.capacity)

\* PushBack(item): both overloads store item in slot size_, after growing a
\* full container through Reserve
PushBack(c, item, foreign) ==
    IF c.size < c.capacity
      THEN Vec(Write(c.items, c.size, item), c.size + 1, c.capacity)
      ELSE LET r == Reserve(c, GrownCapacity(c.capacity), foreign)
           IN  Vec(Write(r.items, r.size, item), r.size + 1, r.capacity)

\* assert(pos >= begin() && pos <= end()) of Insert and of Erase
PosAssert(c, index) == index >= 0 /\ index <= c.size

\* faulty variant: the tail is shifted front to back, so the first element smears
InsertShiftsForward(c, index, value, foreign) ==
    LET r == IF c.size >= c.capacity
               THEN LET new_capacity == GrownCapacity(c.capacity)
                    IN  [Reserve(c, new_capacity, foreign) EXCEPT !.capacity = new_capacity]
               ELSE c
        shifted == StdCopyWithin(r.items, index, r.size, index + 1, foreign)
    IN  [vec |-> Vec(Write(shifted, index, value), r.size + 1, r.capacity),
         ret |-> index]

\* Insert(pos, value), both overloads; index = pos - begin()
Insert(c, index, value, foreign) ==
    LET r == IF c.size >= c.capacity
               THEN LET new_capacity == GrownCapacity(c.capacity)
                    IN  [Reserve(c, new_capacity, foreign) EXCEPT !.capacity = new_capacity]
               ELSE c
        shifted == StdCopyBackward(r.items, index, r.size, r.size + 1, foreign)
    IN  [vec |-> Vec(Write(shifted, index, value), r.size + 1, r.capacity),
         ret |-> index]

\* PopBack()
PopBack(c) == Vec(c.items, c.size - 1, c.capacity)

\* faulty variant: the tail is shifted back to front, so the last element smears
EraseShiftsBackward(c, index, foreign) ==
    [vec |-> Vec(StdCopyBackward(c.items, index + 1, c.size, c.size - 1, foreign),
                 c.size - 1, c.capacity),
     ret |-> index]

\* the largest value of size_t, shown by the largest integer the checker holds
SizeMax == 2147483647

\* --size_ on an unsigned size_: 0 wraps to the largest value
Decrement(n) == IF n = 0 THEN SizeMax ELSE n - 1

\* Erase(pos); index = pos - begin()
Erase(c, index, foreign) ==
    [vec |-> Vec(StdCopyWithin(c.items, index + 1, c.size, index, foreign),
                 Decrement(c.size), c.capacity),
     ret |-> index]

\* std::copy(first, last, d) with first past last is not a valid range
\* (undefined behaviour): the block is left alone or overwritten with anything
EraseOutcomes(c, index, foreign) ==
    IF index + 1 > c.size
      THEN [1..Len(c.items) -> Cell]
      ELSE {Erase(c, index, foreign).vec.items}

\* ---- accesses outside the owned block ----
\* whether the operation reads or writes a slot that is not in the block it uses
OobCopyCtor(other) == other.size > Len(other.items)

OobAt(c, index) == index < c.size /\ index >= Len(c.items)

OobReserve(c, new_capacity) ==
    new_capacity > c.capacity /\ (c.size > Len(c.items) \/ c.size > new_capacity)

OobResize(c, new_size) ==
    IF new_size <= c.size THEN FALSE
    ELSE IF new_size <= c.capacity THEN new_size > Len(c.items)
    ELSE c.size > Len(c.items)

OobPushBack(c) ==
    IF c.size < c.capacity
      THEN c.size >= Len(c.items)
      ELSE OobReserve(c, GrownCapacity(c.capacity)) \/ c.size >= GrownCapacity(c.capacity)

OobInsert(c, index) ==
    IF c.size >= c.capacity
      THEN OobReserve(c, GrownCapacity(c.capacity)) \/ c.size >= GrownCapacity(c.capacity)
      ELSE c.size >= Len(c.items)

OobErase(c, index) == index + 1 < c.size /\ c.size > Len(c.items)

\* ---- the state machine ----
\* last: the operation that produced the state, its arguments and what it returned
Op(op, n, x, ret, threw) == [op |-> op, n |-> n, x |-> x, ret |-> ret, threw |-> threw]

\* hist: the values appended since construction, while the container is a
\* default-constructed one (pure) or one constructed from a capacity hint
\* (hint is the capacity asked for) that has only been appended to
NoHint == 0 - 1
History(pure, vals) == [pure |-> pure, vals |-> vals, hint |-> NoHint]
HintHistory(c, vals) == [pure |-> FALSE, vals |-> vals, hint |-> c]
NoHistory == History(FALSE, <<>>)

InitLists == UNION {[1..n -> Values] : n \in 0..MaxInit}

Init ==
    /\ oob = FALSE
    /\ \/ /\ v = DefaultCtor
          /\ last = Op("SimpleVector", 0, 0, 0, FALSE)
          /\ hist = History(TRUE, <<>>)
       \/ \E n \in 0..MaxInit :
             /\ v = SizedCtor(n)
             /\ last = Op("Sized", n, 0, 0, FALSE)
             /\ hist = NoHistory
       \/ \E n \in 0..MaxInit, x \in Values :
             /\ v = SizedValueCtor(n, x)
             /\ last = Op("SizedValue", n, x, 0, FALSE)
             /\ hist = NoHistory
       \/ \E init \in InitLists :
             /\ v = InitListCtor(init)
             /\ last = Op("InitList", Len(init), 0, 0, FALSE)
             /\ hist = NoHistory
       \/ \E c \in 0..MaxInit :
             /\ v = ReserveCtor(c)
             /\ last = Op("ReserveCtor", c, 0, 0, FALSE)
             /\ hist = HintHistory(c, <<>>)
    /\ pre = v
    /\ u = DefaultCtor

\* SimpleVector w(v); the run goes on with w
CopyConstruct ==
    \E foreign \in Foreign(v) :
       /\ v' = CopyCtor(v, foreign)
       /\ last' = Op("CopyCtor", 0, 0, 0, FALSE)
       /\ oob' = OobCopyCtor(v)
       /\ pre' = v
       /\ u' = u
       /\ hist' = NoHistory

\* SimpleVector w(std::move(v)); the run goes on with w
MoveConstruct ==
    /\ v' = MoveCtor(v).dst
    /\ last' = Op("MoveCtor", 0, 0, 0, FALSE)
    /\ oob' = FALSE
    /\ pre' = v
    /\ u' = u
    /\ hist' = NoHistory

DoAt ==
    \E index \in 0..MaxCap, foreign \in Foreign(v) :
       LET r == At(v, index, foreign)
       IN  /\ last' = Op("At", index, 0, r.ret, r.threw)
           /\ oob' = OobAt(v, index)
           /\ pre' = v
           /\ u' = u
           /\ UNCHANGED <<v, hist>>

DoReserve ==
    \E new_capacity \in 0..MaxCap, foreign \in Foreign(v) :
       /\ v' = Reserve(v, new_capacity, foreign)
       /\ last' = Op("Reserve", new_capacity, 0, 0, FALSE)
       /\ oob' = OobReserve(v, new_capacity)
       /\ pre' = v
       /\ u' = u
       /\ hist' = NoHistory

DoResize ==
    \E new_size \in 0..MaxCap, foreign \in Foreign(v) :
       /\ Max(new_size, v.capacity * 2) <= MaxCap \/ new_size <= v.capacity
       /\ v' = Resize(v, new_size, foreign)
       /\ last' = Op("Resize", new_size, 0, 0, FALSE)
       /\ oob' = OobResize(v, new_size)
       /\ pre' = v
       /\ u' = u
       /\ hist' = NoHistory

DoClear ==
    \E foreign \in Foreign(v) :
       /\ v' = Clear(v, foreign)
       /\ last' = Op("Clear", 0, 0, 0, FALSE)
       /\ oob' = OobResize(v, 0)
       /\ pre' = v
       /\ u' = u
       /\ hist' = NoHistory

DoPushBack ==
    \E item \in Values, foreign \in Foreign(v) :
       /\ v.size < v.capacity \/ GrownCapacity(v.capacity) <= MaxCap
       /\ v' = PushBack(v, item, foreign)
       /\ last' = Op("PushBack", 0, item, 0, FALSE)
       /\ oob' = OobPushBack(v)
       /\ pre' = v
       /\ u' = u
       /\ hist' = IF hist.pure THEN History(TRUE, Append(hist.vals, item))
                  ELSE IF hist.hint # NoHint
                    THEN HintHistory(hist.hint, Append(hist.vals, item))
                  ELSE NoHistory

\* Insert(begin() + index, value) with the position in [begin(), end()]
DoInsert ==
    \E index \in 0..v.size, value \in Values, foreign \in Foreign(v) :
       /\ PosAssert(v, index)
       /\ v.size < v.capacity \/ GrownCapacity(v.capacity) <= MaxCap
       /\ LET r == Insert(v, index, value, foreign)
          IN  /\ v' = r.vec
              /\ last' = Op("Insert", index, value, r.ret, FALSE)
       /\ oob' = OobInsert(v, index)
       /\ pre' = v
       /\ u' = u
       /\ hist' = NoHistory

\* PopBack() on a container that is not empty
DoPopBack ==
    /\ v.size > 0
    /\ v' = PopBack(v)
    /\ last' = Op("PopBack", 0, 0, 0, FALSE)
    /\ oob' = FALSE
    /\ pre' = v
    /\ u' = u
    /\ hist' = NoHistory

\* Erase(begin() + index) with the position in [begin(), end())
DoErase ==
    \E index \in 0..(v.size - 1), foreign \in Foreign(v) :
       /\ PosAssert(v, index)
       /\ LET r == Erase(v, index, foreign)
          IN  /\ v' = r.vec
              /\ last' = Op("Erase", index, 0, r.ret, FALSE)
       /\ oob' = OobErase(v, index)
       /\ pre' = v
       /\ u' = u
       /\ hist' = NoHistory

\* it = Insert(begin() + index, value); Erase(begin() + index): the two calls of
\* a round trip, the second at the offset of the first
DoInsertThenErase ==
    \E index \in 0..v.size, value \in Values, foreign \in Foreign(v) :
       /\ PosAssert(v, index)
       /\ v.size < v.capacity \/ GrownCapacity(v.capacity) <= MaxCap
       /\ LET mid == Insert(v, index, value, foreign).vec
          IN  \E seen \in Foreign(mid) :
                 LET r == Erase(mid, index, seen)
                 IN  /\ PosAssert(mid, index)
                     /\ v' = r.vec
                     /\ last' = Op("InsertErase", index, value, r.ret, FALSE)
                     /\ oob' = (OobInsert(v, index) \/ OobErase(mid, index))
       /\ pre' = v
       /\ u' = u
       /\ hist' = NoHistory

Next ==
    \/ CopyConstruct
    \/ MoveConstruct
    \/ DoAt
    \/ DoReserve
    \/ DoResize
    \/ DoClear
    \/ DoPushBack
    \/ DoInsert
    \/ DoPopBack
    \/ DoErase

Spec == Init /\ [][Next]_vars

NextRoundTrip ==
    \/ Next
    \/ DoInsertThenErase

\* the runs in which an Insert may be followed at once by an Erase at its offset
SpecRoundTrip == Init /\ [][NextRoundTrip]_vars

\* ---- what a container holds ----
\* the size logically live elements all lie in the owned block
HasSeq(c) == c.size <= Len(c.items)

\* the sequence the container holds
Elems(c) == SubSeq(c.items, 1, c.size)

\* slot i is a slot of the owned block of both containers and holds the same cell
SameSlot(c, d, i) ==
    /\ i < Len(c.items)
    /\ i < Len(d.items)
    /\ c.items[i + 1] = d.items[i + 1]

\* every element of before that lies in its owned block is kept by after
KeepsElements(before, after) ==
    \A i \in 0..(before.size - 1) : i < Len(before.items) => SameSlot(before, after, i)

RECURSIVE IsDoubling(_)
\* n is one of 1, 2, 4, 8, ...
IsDoubling(n) == n = 1 \/ (n > 1 /\ n % 2 = 0 /\ IsDoubling(n \div 2))

\* ---- C1 ----
\* C1: in every reachable state the capacity equals the number of slots of the
\* owned block.
C1_CapacityIsBufferLength == v.capacity = Len(v.items)

\* ---- C2 ----
\* C2: in every state reached by constructors and operations used within their
\* preconditions, 0 <= size <= capacity.
C2_SizeWithinCapacity == 0 <= v.size /\ v.size <= v.capacity

\* an Insert into a full, non-empty container has acted
C2_Witness ==
    /\ last.op = "Insert"
    /\ pre.size = pre.capacity
    /\ pre.size > 0
    /\ v.size = pre.size + 1

\* ---- C3 ----
\* C3: a copy-constructed container has the source's size, a capacity equal to
\* the source's size, and the source's elements in order.
C3_CopyCtor ==
    last.op = "CopyCtor" =>
        /\ v.size = pre.size
        /\ v.capacity = pre.size
        /\ HasSeq(pre) => (HasSeq(v) /\ Elems(v) = Elems(pre))

\* ---- C4 ----
\* C4: after n PushBack calls on a default-constructed container the size is n,
\* the elements are the values pushed, in order, and the capacity is at least
\* the size and one of 1, 2, 4, 8, ...; any PushBack leaves the capacity alone
\* when size < capacity, makes it 1 (from 0) or twice what it was when
\* size = capacity, and keeps the elements stored before it.
C4_PushBack ==
    /\ hist.pure =>
          /\ v.size = Len(hist.vals)
          /\ HasSeq(v)
          /\ Elems(v) = hist.vals
          /\ v.capacity >= v.size
          /\ Len(hist.vals) > 0 => IsDoubling(v.capacity)
    /\ last.op = "PushBack" =>
          /\ pre.size < pre.capacity => v.capacity = pre.capacity
          /\ pre.size = pre.capacity =>
                v.capacity = (IF pre.capacity = 0 THEN 1 ELSE 2 * pre.capacity)
          /\ KeepsElements(pre, v)

\* three values were appended to a default-constructed container, the third
\* one growing the capacity from 2 to 4
C4_Witness ==
    /\ hist.pure
    /\ Len(hist.vals) = 3
    /\ last.op = "PushBack"
    /\ pre.capacity = 2
    /\ v.capacity = 4

\* ---- C5 ----
\* C5: Insert(begin() + k, x) on a container holding s, 0 <= k <= size, leaves
\* the container holding s[0..k) ++ [x] ++ s[k..size), with the size one larger,
\* returns offset k, and changes the capacity only when the container was full
\* (to 1 from 0, to twice the capacity otherwise).
C5_Insert ==
    (last.op = "Insert" /\ HasSeq(pre)) =>
        /\ v.size = pre.size + 1
        /\ HasSeq(v)
        /\ Elems(v) = SubSeq(Elems(pre), 1, last.n) \o <<last.x>>
                         \o SubSeq(Elems(pre), last.n + 1, pre.size)
        /\ last.ret = last.n
        /\ v.capacity = (IF pre.size = pre.capacity
                           THEN (IF pre.capacity = 0 THEN 1 ELSE 2 * pre.capacity)
                           ELSE pre.capacity)

\* ---- C6 ----
\* C6: Erase(begin() + k) on a container holding s, 0 <= k < size, leaves the
\* container holding s[0..k) ++ s[k+1..size), with the size one smaller and the
\* capacity unchanged, and returns offset k (the end when the last element went).
C6_Erase ==
    (last.op = "Erase" /\ HasSeq(pre)) =>
        /\ v.size = pre.size - 1
        /\ HasSeq(v)
        /\ Elems(v) = SubSeq(Elems(pre), 1, last.n)
                         \o SubSeq(Elems(pre), last.n + 2, pre.size)
        /\ v.capacity = pre.capacity
        /\ last.ret = last.n
        /\ last.n = pre.size - 1 => last.ret = v.size

\* an element with two elements after it was erased
C6_Witness ==
    /\ last.op = "Erase"
    /\ HasSeq(pre)
    /\ last.n + 2 < pre.size
    /\ pre.items[last.n + 2] # pre.items[last.n + 3]

\* ---- C7 ----
\* C7: Reserve(n) changes neither the size nor the elements; with n <= capacity
\* it changes nothing, otherwise the capacity and the number of slots owned
\* both become n.
C7_Reserve ==
    last.op = "Reserve" =>
        /\ v.size = pre.size
        /\ KeepsElements(pre, v)
        /\ last.n <= pre.capacity => v = pre
        /\ last.n > pre.capacity => (v.capacity = last.n /\ Len(v.items) = last.n)

\* a container holding two different elements was grown
C7_Witness ==
    /\ last.op = "Reserve"
    /\ last.n > pre.capacity
    /\ HasSeq(pre)
    /\ pre.size >= 2
    /\ pre.items[1] # pre.items[2]

\* ---- C8 ----
\* C8: after Resize(n) on a container of size s the size is n, the first
\* min(s, n) elements are kept and every element at an index in [s, n) is the
\* default value, whatever the slot held before.
C8_Resize ==
    last.op = "Resize" =>
        /\ v.size = last.n
        /\ \A i \in 0..(Min(pre.size, last.n) - 1) :
              i < Len(pre.items) => SameSlot(pre, v, i)
        /\ \A i \in pre.size..(last.n - 1) :
              i < Len(v.items) /\ v.items[i + 1] = DefaultValue

\* ---- C9 ----
\* C9: Resize(n) with n > capacity makes the capacity max(n, 2 * capacity);
\* with n <= capacity it leaves the capacity and the owned block as they were
\* (the same slots, none but those in [size, n) written).
C9_ResizeCapacity ==
    last.op = "Resize" =>
        /\ last.n > pre.capacity => v.capacity = Max(last.n, 2 * pre.capacity)
        /\ last.n <= pre.capacity =>
              /\ v.capacity = pre.capacity
              /\ Len(v.items) = Len(pre.items)
              /\ \A i \in 0..(Len(pre.items) - 1) :
                    (i < pre.size \/ i >= last.n) => SameSlot(pre, v, i)

\* a Resize beyond the capacity for which doubling gives more than the new size
C9_Witness ==
    /\ last.op = "Resize"
    /\ last.n > pre.capacity
    /\ 2 * pre.capacity > last.n

\* ---- C10 ----
\* C10: At(index) fails exactly when index >= size and then leaves the container
\* as it was; otherwise it returns what operator[](index) returns.
C10_At ==
    last.op = "At" =>
        /\ last.threw <=> last.n >= v.size
        /\ last.threw => v = pre
        /\ ~last.threw => \E foreign \in Foreign(v) : last.ret = Index(v, last.n, foreign)

\* At(size) failed on a container whose slot size holds a value
C10_Witness ==
    /\ last.op = "At"
    /\ last.threw
    /\ last.n = v.size
    /\ last.n < Len(v.items)
    /\ v.items[last.n + 1] \in Values

\* ---- allocation failure ----
\* The constructor of ArrayPtr throws when the block cannot be allocated.  Each
\* operator is the container as the exception leaves it: what the operation
\* has written before the allocation.

\* Reserve: `ArrayPtr<Type> tmp(new_capacity)` is the first statement of the branch
ReserveBadAlloc(c, new_capacity) == c

\* Resize: new_capacity is a local, `ArrayPtr<Type> tmp(new_capacity)` follows it
ResizeBadAlloc(c, new_size) == c

\* PushBack: Reserve(new_capacity) is called before the slot and size_ are written
PushBackBadAlloc(c, item) == ReserveBadAlloc(c, GrownCapacity(c.capacity))

\* faulty variant: capacity_ is set before Reserve is called
InsertBadAllocCapacityFirst(c, index, value) ==
    [ReserveBadAlloc(c, GrownCapacity(c.capacity)) EXCEPT
        !.capacity = GrownCapacity(c.capacity)]

\* Insert: Reserve(new_capacity) is called before capacity_, the slots and size_
\* are written
InsertBadAlloc(c, index, value) == ReserveBadAlloc(c, GrownCapacity(c.capacity))

DoReserveBadAlloc ==
    \E new_capacity \in 0..MaxCap :
       /\ new_capacity > v.capacity
       /\ v' = ReserveBadAlloc(v, new_capacity)
       /\ last' = Op("Reserve", new_capacity, 0, 0, TRUE)
       /\ oob' = FALSE
       /\ pre' = v
       /\ UNCHANGED <<u, hist>>

DoResizeBadAlloc ==
    \E new_size \in 0..MaxCap :
       /\ new_size > v.size
       /\ new_size > v.capacity
       /\ v' = ResizeBadAlloc(v, new_size)
       /\ last' = Op("Resize", new_size, 0, 0, TRUE)
       /\ oob' = FALSE
       /\ pre' = v
       /\ UNCHANGED <<u, hist>>

DoPushBackBadAlloc ==
    \E item \in Values :
       /\ ~(v.size < v.capacity)
       /\ GrownCapacity(v.capacity) > v.capacity
       /\ v' = PushBackBadAlloc(v, item)
       /\ last' = Op("PushBack", 0, item, 0, TRUE)
       /\ oob' = FALSE
       /\ pre' = v
       /\ UNCHANGED <<u, hist>>

DoInsertBadAlloc ==
    \E index \in 0..v.size, value \in Values :
       /\ PosAssert(v, index)
       /\ v.size >= v.capacity
       /\ GrownCapacity(v.capacity) > v.capacity
       /\ v' = InsertBadAlloc(v, index, value)
       /\ last' = Op("Insert", index, value, 0, TRUE)
       /\ oob' = FALSE
       /\ pre' = v
       /\ UNCHANGED <<u, hist>>

NextAlloc ==
    \/ Next
    \/ DoReserveBadAlloc
    \/ DoResizeBadAlloc
    \/ DoPushBackBadAlloc
    \/ DoInsertBadAlloc

\* the runs in which an allocation may fail
SpecAlloc == Init /\ [][NextAlloc]_vars

\* ---- C11 ----
\* C11: when the allocation inside Reserve, Resize, PushBack or Insert fails,
\* the container is left with the size, capacity and block it had before the call.
C11_FailedGrowth ==
    (last.threw /\ last.op \in {"Reserve", "Resize", "PushBack", "Insert"}) => v = pre

\* the allocation failed in an Insert into a full container that holds elements
C11_Witness ==
    /\ last.threw
    /\ last.op = "Insert"
    /\ pre.size = pre.capacity
    /\ pre.size > 0
    /\ v.size = pre.size

\* ---- operations on two containers ----
\* swap(other): what this and other hold afterwards
Swap(c, d) == [self |-> Vec(d.items, d.size, d.capacity),
               arg |-> Vec(c.items, c.size, c.capacity)]

\* operator=(const SimpleVector& rhs); same tells that this == &rhs.  The
\* temporary takes the old content of this and is destroyed.
CopyAssign(c, r, same, foreign) ==
    IF ~same
      THEN LET tmp == CopyCtor(r, foreign)
           IN  [self |-> Swap(c, tmp).self, arg |-> r]
      ELSE [self |-> c, arg |-> r]

\* faulty variant: the temporary is move-constructed from rhs
MoveAssignMoves(c, r, same, foreign) ==
    IF ~same
      THEN LET m == MoveCtor(r)
           IN  [self |-> Swap(c, m.dst).self, arg |-> m.src]
      ELSE [self |-> c, arg |-> r]

\* operator=(SimpleVector&& rhs): rhs is a named reference, so `SimpleVector
\* tmp(rhs)` is the copy constructor
MoveAssign(c, r, same, foreign) ==
    IF ~same
      THEN LET tmp == CopyCtor(r, foreign)
           IN  [self |-> Swap(c, tmp).self, arg |-> r]
      ELSE [self |-> c, arg |-> r]

\* std::equal(first1, last1, first2, last2) on random access iterators
RECURSIVE StdEqual(_, _, _, _, _, _)
StdEqual(a, first1, last1, b, first2, last2) ==
    IF last1 - first1 # last2 - first2 THEN FALSE
    ELSE IF first1 >= last1 THEN TRUE
    ELSE IF Read(a, first1, <<>>) # Read(b, first2, <<>>) THEN FALSE
    ELSE StdEqual(a, first1 + 1, last1, b, first2 + 1, last2)

\* std::lexicographical_compare(first1, last1, first2, last2)
RECURSIVE StdLexicographicalCompare(_, _, _, _, _, _)
StdLexicographicalCompare(a, first1, last1, b, first2, last2) ==
    IF first1 >= last1 \/ first2 >= last2 THEN first1 >= last1 /\ first2 < last2
    ELSE IF Read(a, first1, <<>>) < Read(b, first2, <<>>) THEN TRUE
    ELSE IF Read(b, first2, <<>>) < Read(a, first1, <<>>) THEN FALSE
    ELSE StdLexicographicalCompare(a, first1 + 1, last1, b, first2 + 1, last2)

\* operator==
OpEq(lhs, rhs) ==
    IF lhs.size = rhs.size
      THEN StdEqual(lhs.items, 0, lhs.size, rhs.items, 0, rhs.size)
      ELSE FALSE

\* operator!=
OpNe(lhs, rhs) == ~OpEq(lhs, rhs)

\* operator<
OpLt(lhs, rhs) ==
    StdLexicographicalCompare(lhs.items, 0, lhs.size, rhs.items, 0, rhs.size)

\* faulty variant: the test for inequality is left out
OpGtNotLess(lhs, rhs) == ~OpLt(lhs, rhs)

\* operator>
OpGt(lhs, rhs) == ~OpLt(lhs, rhs) /\ OpNe(lhs, rhs)

\* operator<=
OpLe(lhs, rhs) == ~OpGt(lhs, rhs)

\* operator>=
OpGe(lhs, rhs) == ~OpLt(lhs, rhs)

\* what the six operators return for lhs and rhs, and operator< for rhs and lhs
Compare(lhs, rhs) ==
    [eq |-> OpEq(lhs, rhs), ne |-> OpNe(lhs, rhs), lt |-> OpLt(lhs, rhs),
     le |-> OpLe(lhs, rhs), gt |-> OpGt(lhs, rhs), ge |-> OpGe(lhs, rhs),
     tl |-> OpLt(rhs, lhs)]

\* ---- the state machine of two containers ----
\* the containers the two objects start as: built from a list or from a
\* capacity hint, then possibly grown by Reserve, then possibly cut by PopBack
Built == {InitListCtor(init) : init \in InitLists}
            \cup {ReserveCtor(c) : c \in 0..MaxInit}
Grown == {Reserve(c, n, <<>>) : c \in Built, n \in 0..MaxCap}
PairInputs == Grown \cup {PopBack(c) : c \in {d \in Grown : d.size > 0}}

InitPair ==
    /\ v \in PairInputs
    /\ u \in PairInputs
    /\ pre = v
    /\ last = Op("Built", 0, u, 0, FALSE)
    /\ oob = FALSE
    /\ hist = NoHistory

\* v = u
DoCopyAssign ==
    \E foreign \in Foreign(u) :
       LET r == CopyAssign(v, u, FALSE, foreign)
       IN  /\ v' = r.self
           /\ u' = r.arg
           /\ last' = Op("CopyAssign", 0, u, 0, FALSE)
           /\ oob' = OobCopyCtor(u)
           /\ pre' = v
           /\ hist' = NoHistory

\* v = std::move(u)
DoMoveAssign ==
    \E foreign \in Foreign(u) :
       LET r == MoveAssign(v, u, FALSE, foreign)
       IN  /\ v' = r.self
           /\ u' = r.arg
           /\ last' = Op("MoveAssign", 0, u, 0, FALSE)
           /\ oob' = OobCopyCtor(u)
           /\ pre' = v
           /\ hist' = NoHistory

\* v = v and v = std::move(v)
DoSelfAssign ==
    \E form \in {"copy", "move"}, foreign \in Foreign(v) :
       LET r == IF form = "copy" THEN CopyAssign(v, v, TRUE, foreign)
                                 ELSE MoveAssign(v, v, TRUE, foreign)
       IN  /\ v' = r.self
           /\ last' = Op("SelfAssign", 0, v, form, FALSE)
           /\ oob' = FALSE
           /\ pre' = v
           /\ hist' = NoHistory
           /\ u' = u

\* v.swap(u)
DoSwap ==
    LET r == Swap(v, u)
    IN  /\ v' = r.self
        /\ u' = r.arg
        /\ last' = Op("swap", 0, u, 0, FALSE)
        /\ oob' = FALSE
        /\ pre' = v
        /\ hist' = NoHistory

\* SimpleVector w(std::move(u)); w takes the place of v
DoMoveConstruct ==
    LET r == MoveCtor(u)
    IN  /\ v' = r.dst
        /\ u' = r.src
        /\ last' = Op("MoveCtor", 0, u, 0, FALSE)
        /\ oob' = FALSE
        /\ pre' = v
        /\ hist' = NoHistory

\* v == u, v != u, v < u, v <= u, v > u, v >= u, u < v
DoCompare ==
    /\ last' = Op("Compare", 0, u, Compare(v, u), FALSE)
    /\ oob' = FALSE
    /\ pre' = v
    /\ UNCHANGED <<v, u, hist>>

NextPair ==
    \/ DoCopyAssign
    \/ DoMoveAssign
    \/ DoSelfAssign
    \/ DoSwap
    \/ DoMoveConstruct
    \/ DoCompare

SpecPair == InitPair /\ [][NextPair]_vars

\* ---- C12 ----
\* C12: a container move-constructed from another has the size, the capacity
\* and the block the other had, and the other is left with size 0 and capacity 0.
C12_MoveCtor ==
    last.op = "MoveCtor" =>
        /\ v.size = last.x.size
        /\ v.capacity = last.x.capacity
        /\ v.items = last.x.items
        /\ u.size = 0
        /\ u.capacity = 0

\* the source held elements and had spare capacity
C12_Witness ==
    /\ last.op = "MoveCtor"
    /\ last.x.size > 0
    /\ last.x.capacity > last.x.size
    /\ v.size = last.x.size
    /\ u.size = 0

\* ---- C13 ----
\* C13: after v = u and after v = std::move(u), v has the size and the elements
\* of u, and u is as it was; assigning a container to itself changes nothing.
C13_Assign ==
    /\ last.op \in {"CopyAssign", "MoveAssign"} =>
          /\ v.size = last.x.size
          /\ HasSeq(last.x) => (HasSeq(v) /\ Elems(v) = Elems(last.x))
          /\ u = last.x
    /\ last.op = "SelfAssign" => v = pre

\* a move-assignment from a container that holds elements to one of another size
C13_Witness ==
    /\ last.op = "MoveAssign"
    /\ last.x.size > 0
    /\ pre.size # last.x.size
    /\ u.size = last.x.size

\* ---- C15 ----
\* a precedes b lexicographically, a proper prefix being less
LexLess(a, b) ==
    \E k \in 0..Min(Len(a), Len(b)) :
       /\ \A i \in 1..k : a[i] = b[i]
       /\ \/ k = Len(a) /\ k < Len(b)
          \/ k < Len(a) /\ k < Len(b) /\ a[k + 1] < b[k + 1]

\* C15: v == u exactly when they have the same size and the same elements,
\* whatever their capacities; v < u exactly when v precedes u
\* lexicographically; != is the negation of ==, v > u is u < v, <= is < or ==,
\* >= is the negation of <, and exactly one of <, ==, > holds.
C15_Compare ==
    last.op = "Compare" =>
        LET r == last.ret
        IN  /\ HasSeq(v) /\ HasSeq(u)
            /\ r.eq <=> (v.size = u.size /\ Elems(v) = Elems(u))
            /\ r.lt <=> LexLess(Elems(v), Elems(u))
            /\ r.ne <=> ~r.eq
            /\ r.gt <=> r.tl
            /\ r.le <=> (r.lt \/ r.eq)
            /\ r.ge <=> ~r.lt
            /\ (r.lt /\ ~r.eq /\ ~r.gt) \/ (~r.lt /\ r.eq /\ ~r.gt)
                  \/ (~r.lt /\ ~r.eq /\ r.gt)

\* two containers with the same elements and different capacities were compared
C15_Witness ==
    /\ last.op = "Compare"
    /\ last.ret.eq
    /\ v.size > 1
    /\ v.capacity # u.capacity

\* ---- C14 ----
\* C14: Insert(begin() + k, x) followed by Erase(begin() + k) leaves a container
\* that held s, 0 <= k <= size, with the size it had and holding s again,
\* whether or not the Insert grew the capacity.
C14_InsertErase ==
    (last.op = "InsertErase" /\ HasSeq(pre)) =>
        /\ v.size = pre.size
        /\ HasSeq(v)
        /\ Elems(v) = Elems(pre)

\* ---- C16 ----
\* C16: Reserve, Resize, Clear, PushBack, Insert, Erase and PopBack never make
\* the capacity smaller; Erase, PopBack, Clear and a Resize to at most the
\* capacity leave it as it was, and Clear leaves the size 0.
C16_CapacityKept ==
    /\ last.op \in {"Reserve", "Resize", "Clear", "PushBack", "Insert", "Erase", "PopBack"}
          => v.capacity >= pre.capacity
    /\ last.op \in {"Erase", "PopBack", "Clear"} => v.capacity = pre.capacity
    /\ (last.op = "Resize" /\ last.n <= pre.capacity) => v.capacity = pre.capacity
    /\ last.op = "Clear" => v.size = 0

\* a container that held elements was cleared and keeps a capacity
C16_Witness ==
    /\ last.op = "Clear"
    /\ pre.size > 0
    /\ v.size = 0
    /\ v.capacity = pre.capacity
    /\ v.capacity = Len(v.items)

\* ---- the scenario ----
\* A container is built from a list; then PushBack(d), Erase(begin() + 1),
\* Insert(begin(), e), Reserve(ScenarioCapacity) and Clear() are called in this
\* order.  hist.vals lists the values given so far: the list, then d, then e.
ScenarioMaxVal == 4
ScenarioLen == 3
ScenarioCapacity == 10
ScenarioValues == 0..ScenarioMaxVal

InitScenario ==
    \E init \in [1..ScenarioLen -> ScenarioValues] :
       /\ v = InitListCtor(init)
       /\ u = DefaultCtor
       /\ pre = v
       /\ last = Op("InitList", Len(init), 0, 0, FALSE)
       /\ oob = FALSE
       /\ hist = History(FALSE, init)

ScPushBack ==
    \E item \in ScenarioValues, foreign \in Foreign(v) :
       /\ last.op = "InitList"
       /\ v' = PushBack(v, item, foreign)
       /\ last' = Op("PushBack", 0, item, 0, FALSE)
       /\ oob' = OobPushBack(v)
       /\ pre' = v
       /\ u' = u
       /\ hist' = History(FALSE, Append(hist.vals, item))

ScErase ==
    \E foreign \in Foreign(v) :
       /\ last.op = "PushBack"
       /\ PosAssert(v, 1)
       /\ LET r == Erase(v, 1, foreign)
          IN  /\ v' = r.vec
              /\ last' = Op("Erase", 1, 0, r.ret, FALSE)
       /\ oob' = OobErase(v, 1)
       /\ pre' = v
       /\ UNCHANGED <<u, hist>>

ScInsert ==
    \E value \in ScenarioValues, foreign \in Foreign(v) :
       /\ last.op = "Erase"
       /\ PosAssert(v, 0)
       /\ LET r == Insert(v, 0, value, foreign)
          IN  /\ v' = r.vec
              /\ last' = Op("Insert", 0, value, r.ret, FALSE)
       /\ oob' = OobInsert(v, 0)
       /\ pre' = v
       /\ u' = u
       /\ hist' = History(FALSE, Append(hist.vals, value))

ScReserve ==
    \E foreign \in Foreign(v) :
       /\ last.op = "Insert"
       /\ v' = Reserve(v, ScenarioCapacity, foreign)
       /\ last' = Op("Reserve", ScenarioCapacity, 0, 0, FALSE)
       /\ oob' = OobReserve(v, ScenarioCapacity)
       /\ pre' = v
       /\ UNCHANGED <<u, hist>>

ScClear ==
    \E foreign \in Foreign(v) :
       /\ last.op = "Reserve"
       /\ v' = Clear(v, foreign)
       /\ last' = Op("Clear", 0, 0, 0, FALSE)
       /\ oob' = OobResize(v, 0)
       /\ pre' = v
       /\ UNCHANGED <<u, hist>>

NextScenario ==
    \/ ScPushBack
    \/ ScErase
    \/ ScInsert
    \/ ScReserve
    \/ ScClear

SpecScenario == InitScenario /\ [][NextScenario]_vars

\* ---- C17 ----
\* C17: for a container built from a list s of ScenarioLen values (from {1,2,3}
\* in the spec): PushBack(d) gives size + 1, a capacity of at least that and
\* s ++ [d] ({1,2,3,4}); Erase(begin() + 1) takes the second element out
\* ({1,3,4}, size 3); Insert(begin(), e) puts e in front ({0,1,3,4}, size 4);
\* Reserve(ScenarioCapacity) makes the capacity ScenarioCapacity (10) and keeps
\* the sequence; Clear() gives size 0 and keeps that capacity.
C17_Scenario ==
    LET h == hist.vals
        n == ScenarioLen
        erased == <<h[1]>> \o SubSeq(h, 3, n + 1)
    IN  /\ last.op = "PushBack" =>
              /\ v.size = n + 1
              /\ v.capacity >= n + 1
              /\ HasSeq(v)
              /\ Elems(v) = SubSeq(h, 1, n + 1)
        /\ last.op = "Erase" =>
              /\ v.size = n
              /\ HasSeq(v)
              /\ Elems(v) = erased
        /\ last.op = "Insert" =>
              /\ v.size = n + 1
              /\ HasSeq(v)
              /\ Elems(v) = <<h[n + 2]>> \o erased
              /\ h = <<1, 2, 3, 4, 0>> => Elems(v) = <<0, 1, 3, 4>>
        /\ last.op = "Reserve" =>
              /\ v.capacity = ScenarioCapacity
              /\ v.size = n + 1
              /\ HasSeq(v)
              /\ Elems(v) = <<h[n + 2]>> \o erased
        /\ last.op = "Clear" =>
              /\ v.size = 0
              /\ v.capacity = ScenarioCapacity

\* the scenario of the spec has run to its end: {1,2,3}, PushBack(4),
\* Erase(begin() + 1), Insert(begin(), 0), Reserve(10), Clear()
C17_Witness ==
    /\ last.op = "Clear"
    /\ hist.vals = <<1, 2, 3, 4, 0>>
    /\ v.size = 0
    /\ v.capacity = 10
    /\ SubSeq(v.items, 1, 4) = <<0, 1, 3, 4>>

\* ---- C18 ----
\* C18: a container constructed from a capacity hint c has size 0 and capacity
\* c, and each of the next c PushBack calls stores its value: the size is the
\* number of values appended, the elements are these values in order, and the
\* capacity is still c.
C18_HintPushBack ==
    (hist.hint # NoHint /\ Len(hist.vals) <= hist.hint) =>
        /\ v.size = Len(hist.vals)
        /\ v.capacity = hist.hint
        /\ HasSeq(v)
        /\ Elems(v) = hist.vals

\* ---- C19 ----
\* C19: no operation reads or writes a slot outside the block the container
\* owns, whatever constructors and operations came before.
C19_NoAccessOutsideBlock == ~oob

\* ---- Erase at every position its check lets through ----
\* assert(pos >= begin() && pos <= end()) lets end() through.  A run is
\* followed up to the first such call and not beyond it.
InContract == last.op # "EraseEnd"

DoEraseAsserted ==
    /\ InContract
    /\ \E index \in 0..v.size, foreign \in Foreign(v) :
       /\ PosAssert(v, index)
       /\ \E items \in EraseOutcomes(v, index, foreign) :
             v' = [Erase(v, index, foreign).vec EXCEPT !.items = items]
       /\ last' = Op(IF index < v.size THEN "Erase" ELSE "EraseEnd", index, 0, index, FALSE)
       /\ oob' = (OobErase(v, index) \/ index >= v.size)
       /\ pre' = v
       /\ u' = u
       /\ hist' = NoHistory

NextAssert ==
    \/ InContract /\ Next
    \/ DoEraseAsserted

SpecAssert == Init /\ [][NextAssert]_vars

\* ---- C20 ----
\* C20: Erase acts only at an offset k with 0 <= k < size (its check turns
\* position == end() away, so also every position of an empty container); it
\* never takes size below 0 and never shifts from a range that starts past size.
C20_EraseRejectsEnd ==
    last.op \in {"Erase", "EraseEnd"} =>
        /\ 0 <= last.n
        /\ last.n < pre.size
        /\ v.size = pre.size - 1
        /\ last.n + 1 <= pre.size

====
